---------------------------- MODULE Spec2Model ----------------------------
(***************************************************************************)
(* Forest Apple Collector (game.py): the session of Game.run as a state    *)
(* machine.                                                                *)
(*                                                                         *)
(* Units.  Times are integer milliseconds: pygame's Clock.tick returns     *)
(* integer milliseconds and the code divides by 1000.0, so dt = 0.25 s is  *)
(* 250 here, APPLE_SPAWN_RATE = 1.5 s is 1500, and speeds stay in pixels   *)
(* per second.  Positions are integer pixels: a pygame Rect stores ints    *)
(* and truncates a float assigned to one of its coordinates toward zero.   *)
(***************************************************************************)
EXTENDS Integers, Sequences, FiniteSets

VARIABLES
    phase,            \* "start" | "running" | "exited" | "crashed": where the process is
    modelExists,      \* whether models/apple_cnn.pth exists at startup
    error,            \* the uncaught exception, <<>> when there is none
    running,          \* Game.run's local `running`
    state,            \* Game.state, "unset" before Game.__init__ assigns it
    score, good_collected, rotten_collected, lifelines,
    elapsed, last_apple_spawn,
    apples,           \* Game.apples, in the group's iteration (insertion) order
    effects,          \* Game.effects, in insertion order
    boy,              \* Game.boy
    basket,           \* Game.basket
    last              \* history: what the last step of the program did

vars == <<phase, modelExists, error, running, state, score, good_collected,
          rotten_collected, lifelines, elapsed, last_apple_spawn, apples,
          effects, boy, basket, last>>

gameplay == <<state, score, good_collected, rotten_collected, lifelines,
              elapsed, last_apple_spawn, apples, effects, boy, basket>>

-----------------------------------------------------------------------------
(* Program constants *)

WIDTH == 960
HEIGHT == 600
GROUND_Y == HEIGHT - 100
BOY_SPEED == 300
APPLE_FALL_SPEED == 200
APPLE_SPAWN_RATE == 1500
LIFELINES == 3
BOY_WIDTH == 100
BOY_HEIGHT == 160
PICK_DURATION == 400
EFFECT_DURATION == 600
BASKET_X == 100
BASKET_Y == 80
SPAWN_Y == -50
ARC_HEIGHT == 60
MODEL_PATH == "models/apple_cnn.pth"

(* Bounds of the model *)

\* a round is explored for MaxFrames playing frames
MaxFrames == 8

\* frame deltas returned by clock.tick(FPS), in ms (a slow frame: the fall of an
\* apple takes a few frames)
DeltaTimes == {750}
MaxElapsed == MaxFrames * 750
\* a second exploration, with a frame delta of 0.5 s: a flying effect outlives
\* the frame after the catch
MaxFineFrames == 14
FineDeltaTimes == {500}
MaxFineElapsed == MaxFineFrames * 500
\* a third exploration, with a frame delta of 0.2 s: a pick animation and a
\* flying effect last two frames, and the effect's elapsed time reaches its
\* duration exactly
MaxPickFrames == 24
PickDeltaTimes == {200}
MaxPickElapsed == MaxPickFrames * 200
\* (for these three deltas the floating-point sums and products of the code
\* fall on the same side of 1.5, 0.6, 0.4 and of the integers as the exact ones)
\* pygame.key.get_pressed(): the sets of held movement keys
KeyStates == {{}, {"K_LEFT"}, {"K_d"}, {"K_a", "K_RIGHT"}}
FineKeyStates == {{}, {"K_LEFT"}}
PickKeyStates == {{}, {"K_a"}, {"K_RIGHT"}}
\* random.randint(100, WIDTH - 100) at spawn
SpawnXs == {480}
\* random.randint(28, 36) in Apple._create_surface
Radii == {32}
\* random.randint(-30, 30) in Apple.__init__
Jitters == {-30, 30}
Qualities == {"good", "damaged"}
\* what classify_surface may return: (label, confidence in percent)
ClassifierResults ==
    {[label |-> "good", confidence |-> 99], [label |-> "damaged", confidence |-> 60]}

KeyDown(k) == [type |-> "KEYDOWN", key |-> k]
QuitEvent == [type |-> "QUIT", key |-> "none"]
NoEvent == [type |-> "none", key |-> "none"]
Events == {QuitEvent, KeyDown("K_SPACE"), KeyDown("K_ESCAPE"), KeyDown("K_q"),
           [type |-> "KEYUP", key |-> "K_SPACE"]}

Randoms == [x : SpawnXs, quality : Qualities, radius : Radii, jitter : Jitters]

-----------------------------------------------------------------------------
(* Arithmetic *)

Max(a, b) == IF a >= b THEN a ELSE b
Min(a, b) == IF a <= b THEN a ELSE b

\* int(n / 1000.0): truncation toward zero, as a Rect coordinate is assigned
TruncMilli(n) == IF n >= 0 THEN n \div 1000 ELSE -((-n) \div 1000)

\* rect.x (+)= v * dt with v in px/s and dt in ms
Moved(coord, v, dt) == TruncMilli(1000 * coord + v * dt)

-----------------------------------------------------------------------------
(* load_classifier *)

\* the FileNotFoundError of load_classifier: its type and the pieces of its
\* message (the command stands between backquotes in the source)
LoadClassifierError ==
    <<"FileNotFoundError", "Missing model file at ", MODEL_PATH,
      ". Run ", "python train_model.py", " first.">>

\* load_classifier without its test of model_path.exists()
LoadClassifierUnchecked(exists) == TRUE

\* load_classifier returns a classifier iff the model file exists
LoadClassifierOk(exists) == exists

-----------------------------------------------------------------------------
(* Boy *)

\* Boy.__init__: rect = image.get_rect(midbottom=(WIDTH // 2, GROUND_Y))
NewBoy ==
    [x |-> WIDTH \div 2 - BOY_WIDTH \div 2,
     y |-> GROUND_Y - BOY_HEIGHT,
     direction |-> 1,
     animation_state |-> "idle",
     animation_timer |-> 0,
     picking_timer |-> 0]

LeftHeld(keys) == "K_LEFT" \in keys \/ "K_a" \in keys
RightHeld(keys) == "K_RIGHT" \in keys \/ "K_d" \in keys

\* the clamp with the right bound taken for the window's width
ClampXToWidth(x) == Max(50, Min(WIDTH, x))

\* max(50, min(WIDTH - 50, self.rect.x))
ClampX(x) == Max(50, Min(WIDTH - 50, x))

\* Boy.update(dt) under the key state `keys`
BoyUpdate(b, dt, keys) ==
    LET pt == b.picking_timer + dt
        expired == b.animation_state = "picking" /\ pt > PICK_DURATION
        st1 == IF expired THEN "idle" ELSE b.animation_state
        pt1 == IF expired THEN 0 ELSE pt
        b1 == [b EXCEPT !.animation_timer = @ + dt,
                        !.picking_timer = pt1,
                        !.animation_state = st1]
        walk == IF st1 # "picking" THEN "walking" ELSE st1
    IN  IF LeftHeld(keys)
        THEN [b1 EXCEPT !.x = ClampX(Moved(b1.x, -BOY_SPEED, dt)),
                        !.direction = -1,
                        !.animation_state = walk]
        ELSE IF RightHeld(keys)
        THEN [b1 EXCEPT !.x = ClampX(Moved(b1.x, BOY_SPEED, dt)),
                        !.direction = 1,
                        !.animation_state = walk]
        ELSE [b1 EXCEPT !.animation_state = IF st1 = "walking" THEN "idle" ELSE st1]

\* a pick that does not restart the timer of a pick in progress
PlayPickAnimationNoRestart(b) ==
    [b EXCEPT !.animation_state = "picking",
              !.picking_timer = IF b.animation_state = "picking" THEN @ ELSE 0]

\* Boy.play_pick_animation
PlayPickAnimation(b) ==
    [b EXCEPT !.animation_state = "picking", !.picking_timer = 0]

-----------------------------------------------------------------------------
(* Apple *)

\* Apple.__init__(x_position) with the random draws rnd; `id` stands for the
\* object's identity (the playing time at which it was spawned)
NewApple(rnd, id) ==
    LET w == rnd.radius * 2 + 20
        h == rnd.radius * 2 + 30
    IN  [id |-> id,
         quality |-> rnd.quality,
         x |-> rnd.x - w \div 2,
         y |-> SPAWN_Y - h \div 2,
         w |-> w,
         h |-> h,
         collected |-> FALSE,
         fall_speed |-> APPLE_FALL_SPEED + rnd.jitter]

\* Apple.update: the position after the fall
AppleFall(a, dt) == [a EXCEPT !.y = Moved(a.y, a.fall_speed, dt)]

\* the test made on the bottom edge instead of the top edge
OffScreenAtBottom(a) == a.y + a.h > HEIGHT

\* Apple.update: self.rect.top > HEIGHT, the apple kills itself
OffScreen(a) == a.y > HEIGHT

\* a sprite group after the sprites whose id is in `dead` killed themselves
RECURSIVE SelectAlive(_, _)
SelectAlive(s, dead) ==
    IF s = <<>> THEN <<>>
    ELSE IF Head(s).id \in dead THEN SelectAlive(Tail(s), dead)
         ELSE <<Head(s)>> \o SelectAlive(Tail(s), dead)

\* self.apples.update(dt)
ApplesUpdate(as, dt) ==
    LET fallen == [i \in 1..Len(as) |-> AppleFall(as[i], dt)]
    IN  SelectAlive(fallen, {fallen[i].id : i \in {j \in 1..Len(as) : OffScreen(fallen[j])}})

-----------------------------------------------------------------------------
(* AppleFlyEffect, Basket *)

\* Basket.__init__(100, 80)
NewBasket == [apple_count |-> 0, cx |-> BASKET_X, cy |-> BASKET_Y]

\* AppleFlyEffect.__init__(start_pos, end_pos, image); `id` is the apple it
\* shows, `center` is rect.center
NewEffect(id, sx, sy, ex, ey) ==
    [id |-> id, start |-> <<sx, sy>>, end |-> <<ex, ey>>, elapsed |-> 0,
     center |-> <<sx, sy>>]

\* int(n / d): truncation toward zero, d > 0
Trunc(n, d) == IF n >= 0 THEN n \div d ELSE -((-n) \div d)

\* 1000 * math.sin(t * math.pi) for t = el / duration, to the nearest unit;
\* tabulated for the times el that are multiples of duration / 24
SinPiMilli(el) ==
    LET k == (24 * el) \div EFFECT_DURATION
        table == <<131, 259, 383, 500, 609, 707, 793, 866, 924, 966, 991, 1000>>
    IN  IF k \in {0, 24} THEN 0
        ELSE IF k <= 12 THEN table[k]
        ELSE table[24 - k]

\* arc_height = 60 * math.sin(t * math.pi), in thousandths of a pixel
ArcHeightMilli(el) == ARC_HEIGHT * SinPiMilli(el)

\* the path of AppleFlyEffect.update at the elapsed time el:
\* pos = start_pos.lerp(end_pos, t); (int(pos.x), int(pos.y - arc_height))
EffectPosition(e, el) ==
    <<Trunc(EFFECT_DURATION * e.start[1] + (e.end[1] - e.start[1]) * el, EFFECT_DURATION),
      Trunc(1000 * (EFFECT_DURATION * e.start[2] + (e.end[2] - e.start[2]) * el)
              - EFFECT_DURATION * ArcHeightMilli(el),
            1000 * EFFECT_DURATION)>>

\* AppleFlyEffect.update: self.elapsed >= self.duration, the effect kills itself
EffectExpired(e) == e.elapsed >= EFFECT_DURATION

\* an update that moves the effect before it tests the duration
EffectUpdateMoveFirst(e, dt) ==
    [e EXCEPT !.elapsed = @ + dt, !.center = EffectPosition(e, e.elapsed + dt)]

\* AppleFlyEffect.update(dt) on one effect: the object after the call (an
\* effect that kills itself returns before it is moved)
EffectUpdate(e, dt) ==
    LET aged == [e EXCEPT !.elapsed = @ + dt]
    IN  IF EffectExpired(aged) THEN aged
        ELSE [aged EXCEPT !.center = EffectPosition(e, aged.elapsed)]

\* self.effects.update(dt)
EffectsUpdate(es, dt) ==
    LET aged == [i \in 1..Len(es) |-> EffectUpdate(es[i], dt)]
    IN  SelectAlive(aged, {aged[i].id : i \in {j \in 1..Len(es) : EffectExpired(aged[j])}})

-----------------------------------------------------------------------------
(* Game.handle_collisions *)

\* pygame.sprite.collide_rect(boy, apple): Rect.colliderect, strict overlap
CollideRect(b, a) ==
    /\ b.x < a.x + a.w
    /\ a.x < b.x + BOY_WIDTH
    /\ b.y < a.y + a.h
    /\ a.y < b.y + BOY_HEIGHT

\* the outcome taken from the classifier's label
IsGoodByLabel(a, cls) == cls.label = "good"

\* is_good = (apple.quality == "good"); cls is what classify_surface returned
IsGood(a, cls) == a.quality = "good"

\* the decrement lost: the life count only floored
LoseLifelineNoDecrement(l) == Max(0, l)

\* a damaged apple that costs two lifelines
LoseLifelineTwice(l) == Max(0, l - 2)

\* self.lifelines = max(0, self.lifelines - 1)
LoseLifeline(l) == Max(0, l - 1)

\* a collision that costs a point
RewardLost(sc) == sc - 1

\* the reward of the other game variant
RewardTen(sc) == sc + 10

\* self.score += 1
Reward(sc) == sc + 1

\* the indices of the uncollected apples whose rectangle meets the boy's
Colliding(b, as) == {i \in 1..Len(as) : ~as[i].collected /\ CollideRect(b, as[i])}

\* the loop without its break: every colliding apple is resolved
ResolvedWithoutBreak(b, as) == Colliding(b, as)

\* the apples the loop of handle_collisions resolves: the first match, then break
Resolved(b, as) ==
    LET c == Colliding(b, as)
    IN  IF c = {} THEN {} ELSE {CHOOSE i \in c : \A j \in c : i <= j}

NoHit == [kind |-> "none", id |-> 0, cx |-> 0, cy |-> 0, overlapping |-> 0, label |-> "none"]

\* the body of the loop for one colliding apple a, on the session fields g;
\* g.hit logs the collision: the apple, its quality, its rect.center, the
\* classifier's label and how many apples met the boy's rectangle in this frame
ResolveCollision(g, a, cls) ==
    LET g1 == [g EXCEPT !.boy = PlayPickAnimation(@),
                        !.apples = SelectAlive(@, {a.id}),
                        !.hit = [kind |-> a.quality, id |-> a.id,
                                 cx |-> a.x + a.w \div 2, cy |-> a.y + a.h \div 2,
                                 overlapping |-> Cardinality(Colliding(g.boy, g.apples)),
                                 label |-> cls.label]]
    IN  IF IsGood(a, cls)
        THEN [g1 EXCEPT !.score = Reward(@),
                        !.good_collected = @ + 1,
                        !.basket = [@ EXCEPT !.apple_count = g.good_collected + 1],
                        !.effects = Append(@, NewEffect(a.id, a.x + a.w \div 2,
                                                        a.y + a.h \div 2,
                                                        g.basket.cx, g.basket.cy))]
        ELSE [g1 EXCEPT !.lifelines = LoseLifeline(@),
                        !.rotten_collected = @ + 1]

RECURSIVE ResolveAll(_, _, _, _)
ResolveAll(g, as, todo, cls) ==
    IF todo = {} THEN g
    ELSE LET i == CHOOSE k \in todo : \A j \in todo : k <= j
         IN  ResolveAll(ResolveCollision(g, as[i], cls), as, todo \ {i}, cls)

\* collisions left unhandled while an apple is still flying to the basket
HandleCollisionsBasketBusy(g, cls) ==
    IF g.effects # <<>> THEN g
    ELSE ResolveAll(g, g.apples, Resolved(g.boy, g.apples), cls)

\* Game.handle_collisions on the session fields g
HandleCollisions(g, cls) ==
    ResolveAll(g, g.apples, Resolved(g.boy, g.apples), cls)

-----------------------------------------------------------------------------
(* Game.reset, Game.run *)

\* a reset that forgets self.apples.empty()
ResetFieldsKeepApples ==
    [state |-> "playing",
     score |-> 0,
     good_collected |-> 0,
     rotten_collected |-> 0,
     lifelines |-> LIFELINES,
     elapsed |-> 0,
     last_apple_spawn |-> 0,
     apples |-> apples,
     effects |-> <<>>,
     boy |-> NewBoy,
     basket |-> NewBasket,
     hit |-> NoHit]

\* the session fields Game.reset assigns
ResetFields ==
    [state |-> "playing",
     score |-> 0,
     good_collected |-> 0,
     rotten_collected |-> 0,
     lifelines |-> LIFELINES,
     elapsed |-> 0,
     last_apple_spawn |-> 0,
     apples |-> <<>>,
     effects |-> <<>>,
     boy |-> NewBoy,
     basket |-> NewBasket,
     hit |-> NoHit]

\* the session fields now (hit: no collision logged yet)
Fields ==
    [state |-> state,
     score |-> score,
     good_collected |-> good_collected,
     rotten_collected |-> rotten_collected,
     lifelines |-> lifelines,
     elapsed |-> elapsed,
     last_apple_spawn |-> last_apple_spawn,
     apples |-> apples,
     effects |-> effects,
     boy |-> boy,
     basket |-> basket,
     hit |-> NoHit]

\* the end condition tested with < instead of <=
GameOverStrict(l) == l < 0

\* if self.lifelines <= 0: self.state = "ended"
GameOver(l) == l <= 0

\* the timer compared with > instead of >=
SpawnDueStrict(now, lastSpawn) == now - lastSpawn > APPLE_SPAWN_RATE

\* elapsed - last_apple_spawn >= APPLE_SPAWN_RATE
SpawnDue(now, lastSpawn) == now - lastSpawn >= APPLE_SPAWN_RATE

\* the `if self.state == "playing":` block of Game.run on the fields g, for the
\* frame delta dt, the held keys, the random draws rnd of a spawn and the
\* classifier's answer cls
PlayFrame(g, dt, keys, rnd, cls) ==
    LET now == g.elapsed + dt
        spawn == SpawnDue(now, g.last_apple_spawn)
        spawned == IF spawn THEN Append(g.apples, NewApple(rnd, now)) ELSE g.apples
        g1 == [g EXCEPT !.elapsed = now,
                        !.boy = BoyUpdate(@, dt, keys),
                        !.last_apple_spawn = IF spawn THEN now ELSE @,
                        !.apples = ApplesUpdate(spawned, dt),
                        !.effects = EffectsUpdate(@, dt)]
        g2 == HandleCollisions(g1, cls)
    IN  [g2 EXCEPT !.state = IF GameOver(g2.lifelines) THEN "ended" ELSE @]

\* the loop body without its test of the session state
FrameFieldsInAnyState(g, dt, keys, rnd, cls) == PlayFrame(g, dt, keys, rnd, cls)

\* one pass of the body of `while running` after the events: the fields after it
FrameFields(g, dt, keys, rnd, cls) ==
    IF g.state = "playing" THEN PlayFrame(g, dt, keys, rnd, cls) ELSE g

\* the restart key honoured without the test of the state
IsRestartInAnyState(st, ev) == ev.type = "KEYDOWN" /\ ev.key = "K_SPACE"

\* the restart key is honoured: self.state == "ended" and KEYDOWN and K_SPACE
IsRestart(st, ev) == st = "ended" /\ ev.type = "KEYDOWN" /\ ev.key = "K_SPACE"

\* the quit keys honoured without the test of the state
IsQuitInAnyState(st, ev) ==
    \/ ev.type = "QUIT"
    \/ /\ ev.type = "KEYDOWN"
       /\ ev.key \in {"K_ESCAPE", "K_q"}

\* the event stops the loop: QUIT, or Escape/Q pressed while ended
IsQuit(st, ev) ==
    \/ ev.type = "QUIT"
    \/ /\ st = "ended"
       /\ ev.type = "KEYDOWN"
       /\ ev.key # "K_SPACE"
       /\ ev.key \in {"K_ESCAPE", "K_q"}

\* what the loop body does with one event: "reset", "quit" or "ignored"
EventOp(st, ev) ==
    IF IsRestart(st, ev) THEN "reset"
    ELSE IF IsQuit(st, ev) THEN "quit"
    ELSE "ignored"

Assign(g) ==
    /\ state' = g.state
    /\ score' = g.score
    /\ good_collected' = g.good_collected
    /\ rotten_collected' = g.rotten_collected
    /\ lifelines' = g.lifelines
    /\ elapsed' = g.elapsed
    /\ last_apple_spawn' = g.last_apple_spawn
    /\ apples' = g.apples
    /\ effects' = g.effects
    /\ boy' = g.boy
    /\ basket' = g.basket

\* what the last step did: the operation, the event it acted on, the collision
\* it resolved and the number of sprites a reset emptied out of the groups
Obs(op, ev, hit, removed) == [op |-> op, ev |-> ev, hit |-> hit, removed |-> removed]

\* the draws a frame makes: random only at a spawn, the classifier only at a
\* collision (the first element stands for "not drawn")
NoRandom == [x |-> 480, quality |-> "good", radius |-> 32, jitter |-> -30]
NoClassifier == [label |-> "good", confidence |-> 99]

\* g: the fields before the frame, g2: after it
Drawn(g, g2, dt, rnd, cls) ==
    /\ (g.state # "playing" \/ ~SpawnDue(g.elapsed + dt, g.last_apple_spawn)) => rnd = NoRandom
    /\ g2.hit.kind = "none" => cls = NoClassifier

-----------------------------------------------------------------------------
(* The program *)

Init ==
    /\ phase = "start"
    /\ modelExists \in BOOLEAN
    /\ error = <<>>
    /\ running = FALSE
    /\ state = "unset"
    /\ score = 0 /\ good_collected = 0 /\ rotten_collected = 0 /\ lifelines = 0
    /\ elapsed = 0 /\ last_apple_spawn = 0
    /\ apples = <<>> /\ effects = <<>>
    /\ boy = NewBoy /\ basket = NewBasket
    /\ last = Obs("none", NoEvent, NoHit, 0)

\* Game(): __init__ up to load_classifier, then reset; run() enters its loop
Start ==
    /\ phase = "start"
    /\ IF LoadClassifierOk(modelExists)
       THEN /\ phase' = "running"
            /\ running' = TRUE
            /\ Assign(ResetFields)
            /\ UNCHANGED error
       ELSE /\ phase' = "crashed"
            /\ error' = LoadClassifierError
            /\ UNCHANGED <<running, gameplay>>
    /\ last' = Obs("start", NoEvent, NoHit, 0)
    /\ UNCHANGED modelExists

\* the body of `for event in pygame.event.get()` for one event
HandleEvent(ev) ==
    /\ phase = "running"
    /\ running' = IF IsQuit(state, ev) THEN FALSE ELSE running
    /\ IF IsRestart(state, ev) THEN Assign(ResetFields) ELSE UNCHANGED gameplay
    /\ last' = Obs(EventOp(state, ev),
                   IF EventOp(state, ev) = "ignored" THEN NoEvent ELSE ev, NoHit,
                   IF IsRestart(state, ev) THEN Len(apples) + Len(effects) ELSE 0)
    /\ UNCHANGED <<phase, modelExists, error>>

\* the rest of the loop body after the events, then the test of `while running`
Frame(dt, keys, rnd, cls) ==
    /\ phase = "running"
    /\ LET g == FrameFields(Fields, dt, keys, rnd, cls)
       IN  /\ Drawn(Fields, g, dt, rnd, cls)
           /\ Assign(g)
           /\ last' = Obs("frame", NoEvent, g.hit, 0)
    /\ phase' = IF running THEN "running" ELSE "exited"
    /\ UNCHANGED <<modelExists, error, running>>

\* a frame of the exploration with the slow frame delta
FrameBody(dt, keys, rnd, cls) ==
    /\ state = "playing" => elapsed + dt <= MaxElapsed
    /\ Frame(dt, keys, rnd, cls)

\* a frame of the second exploration
FineFrameBody(dt, keys, rnd, cls) ==
    /\ state = "playing" => elapsed + dt <= MaxFineElapsed
    /\ Frame(dt, keys, rnd, cls)

\* a frame of the third exploration
PickFrameBody(dt, keys, rnd, cls) ==
    /\ state = "playing" => elapsed + dt <= MaxPickElapsed
    /\ Frame(dt, keys, rnd, cls)

Next ==
    \/ Start
    \/ \E ev \in Events : HandleEvent(ev)
    \/ \E dt \in DeltaTimes, keys \in KeyStates, rnd \in Randoms, cls \in ClassifierResults :
          FrameBody(dt, keys, rnd, cls)

Spec == Init /\ [][Next]_vars

FineNext ==
    \/ Start
    \/ \E ev \in Events : HandleEvent(ev)
    \/ \E dt \in FineDeltaTimes, keys \in FineKeyStates, rnd \in Randoms, cls \in ClassifierResults :
          FineFrameBody(dt, keys, rnd, cls)

SpecFine == Init /\ [][FineNext]_vars

PickNext ==
    \/ Start
    \/ \E ev \in Events : HandleEvent(ev)
    \/ \E dt \in PickDeltaTimes, keys \in PickKeyStates, rnd \in Randoms, cls \in ClassifierResults :
          PickFrameBody(dt, keys, rnd, cls)

SpecPick == Init /\ [][PickNext]_vars

-----------------------------------------------------------------------------
(* Properties *)

\* the Game object exists: __init__ has returned
Constructed == phase \in {"running", "exited"}

Ids(s) == {s[i].id : i \in 1..Len(s)}

\* C1: lifelines is an integer in [0, 3] in every state of the session; when
\* lifelines is 0 at the end of a playing frame the state is "ended", and the
\* state leaves "ended" only by a restart (Space while ended).
C1_LivesBoundedEndedUntilRestart ==
    /\ [](Constructed => /\ lifelines \in 0..3
                         /\ (lifelines = 0 => state = "ended"))
    /\ [][(state = "ended" /\ state' # "ended")
            => (last'.op = "reset" /\ last'.ev = KeyDown("K_SPACE"))]_vars

\* a frame was executed while the session was ended, and it is still ended
C1_Witness ==
    /\ state = "ended" /\ lifelines = 0
    /\ last.op = "frame" /\ last.hit.kind = "none"

\* the state a session has at creation
CreationState ==
    /\ score = 0 /\ good_collected = 0 /\ rotten_collected = 0
    /\ lifelines = 3 /\ elapsed = 0 /\ last_apple_spawn = 0
    /\ apples = <<>> /\ effects = <<>>
    /\ boy.x = 430 /\ boy.y = 340 /\ boy.direction = 1
    /\ boy.animation_state = "idle"
    /\ boy.animation_timer = 0 /\ boy.picking_timer = 0
    /\ basket.apple_count = 0
    /\ state = "playing"

Gameplay(g) == [g EXCEPT !.hit = NoHit]

\* the random draws a frame can make in the current state
FrameRandoms(dt) ==
    IF state = "playing" /\ SpawnDue(elapsed + dt, last_apple_spawn)
    THEN Randoms ELSE {NoRandom}

\* C3: the classifier's answer never influences gameplay: from every state of
\* the loop, two frames with the same delta, keys and random draws but
\* different classifier answers leave the same score, counters, lives, state,
\* collectibles and effects (every answer is compared with one of them).
C3_ClassifierNeverInfluencesGameplay ==
    phase = "running" =>
        \A dt \in DeltaTimes, keys \in KeyStates :
            \A rnd \in FrameRandoms(dt) :
                LET one == CHOOSE c \in ClassifierResults : TRUE
                    g1 == Gameplay(FrameFields(Fields, dt, keys, rnd, one))
                IN  \A other \in ClassifierResults \ {one} :
                        Gameplay(FrameFields(Fields, dt, keys, rnd, other)) = g1

\* a damaged apple the classifier called good was resolved as damaged
C3_Witness ==
    /\ last.op = "frame"
    /\ last.hit.kind = "damaged" /\ last.hit.label = "good"
    /\ lifelines = 2 /\ rotten_collected = 1 /\ score = 0

\* the effects of effects' that were not in effects
NewEffects == {i \in 1..Len(effects') : effects'[i].id \notin Ids(effects)}

\* C4: a frame that resolves a collision with a good collectible adds exactly 1
\* to score, good_collected and the basket count, removes the collectible,
\* creates exactly one effect from the collectible's centre to the basket's
\* centre, and leaves lifelines and rotten_collected unchanged.
C4_GoodCollision ==
    [][last'.hit.kind = "good"
        => /\ score' = score + 1
           /\ good_collected' = good_collected + 1
           /\ basket'.apple_count = basket.apple_count + 1
           /\ last'.hit.id \notin Ids(apples')
           /\ Cardinality(NewEffects) = 1
           /\ \A i \in NewEffects :
                /\ effects'[i].start = <<last'.hit.cx, last'.hit.cy>>
                /\ effects'[i].end = <<100, 80>>
                /\ effects'[i].elapsed = 0
           /\ lifelines' = lifelines
           /\ rotten_collected' = rotten_collected]_vars

\* a good apple was caught after an earlier one
C4_Witness ==
    /\ last.op = "frame" /\ last.hit.kind = "good"
    /\ score = 2 /\ Len(effects) = 1

\* C5: a frame that resolves a collision with a damaged collectible sets
\* lifelines to max(0, lifelines - 1), removes the collectible, creates no
\* effect, and leaves score, good_collected and the basket count unchanged.
C5_DamagedCollision ==
    [][last'.hit.kind = "damaged"
        => /\ lifelines' = (IF lifelines - 1 > 0 THEN lifelines - 1 ELSE 0)
           /\ last'.hit.id \notin Ids(apples')
           /\ NewEffects = {}
           /\ score' = score
           /\ good_collected' = good_collected
           /\ basket'.apple_count = basket.apple_count]_vars

\* a damaged apple was hit after a good one was caught
C5_Witness ==
    /\ last.op = "frame" /\ last.hit.kind = "damaged"
    /\ lifelines = 2 /\ score = 1

\* the apples of the active collection whose rectangle meets the boy's
Meeting(b, as) == {i \in 1..Len(as) : CollideRect(b, as[i])}

\* C6: a frame resolves at most one collision: when several uncollected
\* collectibles meet the player's rectangle, only the first in iteration order
\* changes score or lives and is removed; the others stay in the collection,
\* uncollected.
C6_OneCollisionPerFrame ==
    [][(last'.op = "frame" /\ state = "playing")
        => /\ (score' - score) + (lifelines - lifelines') <= 1
           /\ (score' - score) + (lifelines - lifelines')
                = (IF last'.hit.kind = "none" THEN 0 ELSE 1)
           /\ last'.hit.kind = "none" => Meeting(boy', apples') = {}
           /\ last'.hit.kind # "none" =>
                /\ Cardinality(Meeting(boy', apples')) = last'.hit.overlapping - 1
                /\ \A i \in Meeting(boy', apples') :
                     /\ ~apples'[i].collected
                     /\ apples'[i].id > last'.hit.id]_vars

\* two apples met the player in one frame; one was resolved, the other stays
C6_Witness ==
    /\ last.op = "frame" /\ last.hit.overlapping = 2
    /\ Cardinality(Meeting(boy, apples)) = 1

\* C7: the player's rect.x is within [50, WIDTH - 50] in every state, whatever
\* keys are held and for however long.
C7_PlayerWithinBounds ==
    Constructed => boy.x >= 50 /\ boy.x <= 960 - 50

\* the player was stopped at the left bound, then at the right bound
C7_Witness ==
    /\ last.op = "frame" /\ boy.x = 960 - 50 /\ boy.direction = 1
    /\ boy.animation_timer >= 4500

\* C8: the session state is "playing" or "ended"; it goes from playing to ended
\* only in a frame that leaves lifelines at 0, and from ended to playing only
\* by a Space press handled while ended; a Space press while playing resets
\* nothing and leaves the score, the lives and every entity as they were.
C8_SessionStateMachine ==
    /\ [](Constructed => state \in {"playing", "ended"})
    /\ [][(state = "playing" /\ state' # "playing")
            => (state' = "ended" /\ last'.op = "frame" /\ lifelines' = 0)]_vars
    /\ [][(state = "ended" /\ state' # "ended")
            => (state' = "playing" /\ last'.op = "reset"
                /\ HandleEvent(KeyDown("K_SPACE")))]_vars
    /\ [][(HandleEvent(KeyDown("K_SPACE")) /\ state = "playing")
            => (last'.op = "ignored" /\ UNCHANGED <<gameplay, running>>)]_vars
    /\ [][last'.op = "reset" => state = "ended"]_vars

\* an event was ignored in the middle of a round, the session still playing
C8_Witness ==
    /\ last.op = "ignored" /\ state = "playing" /\ running
    /\ score = 1 /\ lifelines = 2 /\ apples # <<>>

QuitKeys == {KeyDown("K_ESCAPE"), KeyDown("K_q")}

\* C9 as stated: every quit input (window close, Escape, Q) stops the loop in
\* whatever state it is handled.
C9_QuitAcceptedInAnyState ==
    [][(\E ev \in QuitKeys \cup {QuitEvent} : HandleEvent(ev)) => ~running']_vars

\* C9, amended: the window-close event stops the loop in any state; Escape and
\* Q stop it only when handled while the state is "ended", and are ignored
\* while playing; once stopped, the loop ends after the current frame and the
\* process terminates.
C9_QuitInputs ==
    /\ [][HandleEvent(QuitEvent) => (last'.op = "quit" /\ ~running')]_vars
    /\ [][((\E ev \in QuitKeys : HandleEvent(ev)) /\ state = "ended")
            => (last'.op = "quit" /\ ~running')]_vars
    /\ [][((\E ev \in QuitKeys : HandleEvent(ev)) /\ state = "playing")
            => (last'.op = "ignored" /\ UNCHANGED <<gameplay, running>>)]_vars
    /\ [][(Constructed /\ ~running) => ~running']_vars
    /\ [][last'.op = "frame" => (phase' = "exited" <=> ~running)]_vars
    /\ [][phase # "exited"]_vars

\* the process has terminated on a quit input handled while playing
C9_Witness ==
    /\ phase = "exited" /\ ~running
    /\ state = "playing" /\ elapsed > 0

LoopStarted == phase \in {"running", "exited"} \/ last.op \in {"frame", "ignored", "quit", "reset"}

\* C10: without the model file, load_classifier fails with an error naming the
\* missing path and the command python train_model.py, construction aborts,
\* the session never is "playing" and no frame of the loop runs.
C10_MissingModelIsFatal ==
    ~modelExists =>
        /\ phase \in {"start", "crashed"}
        /\ state = "unset"
        /\ ~running
        /\ ~LoopStarted
        /\ phase = "crashed" =>
             /\ error # <<>>
             /\ error[1] = "FileNotFoundError"
             /\ \E i \in 1..Len(error) : error[i] = "models/apple_cnn.pth"
             /\ \E i \in 1..Len(error) : error[i] = "python train_model.py"

\* the start-up has failed on the missing model file
C10_Witness == phase = "crashed" /\ ~modelExists /\ last.op = "start"

\* C11: within a round (between two resets) score never decreases and
\* lifelines never increases, from any step of the loop to the next.
C11_ScoreAndLivesMonotonic ==
    [][(Constructed /\ last'.op # "reset")
        => (score' >= score /\ lifelines' <= lifelines)]_vars

\* a round in which the score has risen and the lives have fallen twice
C11_Witness ==
    /\ last.op = "frame" /\ state = "playing"
    /\ score = 1 /\ lifelines = 1

\* the y of the straight line from start to end at the elapsed time el
LineY(e, el) ==
    Trunc(EFFECT_DURATION * e.start[2] + (e.end[2] - e.start[2]) * el, EFFECT_DURATION)

\* the effects a frame removes from the group
Killed == {i \in 1..Len(effects) : effects[i].id \notin Ids(effects')}

NewApples == {i \in 1..Len(apples') : apples'[i].id \notin Ids(apples)}

\* C13: a playing frame spawns a collectible exactly when, after the frame's
\* delta is added, elapsed - last_apple_spawn >= 1.5 s; it spawns one, and
\* sets last_apple_spawn to the current elapsed.  Hence no spawn earlier than
\* 1.5 s into a round, consecutive spawns at least 1.5 s of playing time
\* apart, and no spawn in a frame executed while ended or by an event.
C13_SpawnTimer ==
    /\ [][(last'.op = "frame" /\ state = "playing")
            => IF elapsed' - last_apple_spawn >= 1500
               THEN /\ Cardinality(NewApples) = 1
                    /\ \A i \in NewApples : i = Len(apples') /\ apples'[i].id = elapsed'
                    /\ last_apple_spawn' = elapsed'
                    /\ elapsed' >= 1500
               ELSE /\ NewApples = {}
                    /\ last_apple_spawn' = last_apple_spawn]_vars
    /\ [][(last'.op # "frame" \/ state # "playing")
            => (NewApples = {} /\ (last'.op # "reset" => UNCHANGED last_apple_spawn))]_vars
    /\ [](Constructed =>
            /\ last_apple_spawn <= elapsed
            /\ \A i \in 1..Len(apples) :
                 /\ apples[i].id >= 1500
                 /\ apples[i].id <= last_apple_spawn
                 /\ \A j \in 1..Len(apples) :
                      i < j => apples[j].id - apples[i].id >= 1500)

\* the second collectible of a round has just been spawned, 1.5 s after the first
C13_Witness ==
    /\ last.op = "frame" /\ state = "playing"
    /\ elapsed = 3000 /\ last_apple_spawn = 3000
    /\ Len(apples) = 2 /\ apples[1].id = 1500 /\ apples[2].id = 3000

\* the collectibles a step removes from the active collection
Removed == {i \in 1..Len(apples) : apples[i].id \notin Ids(apples')}

\* C14: a collectible yields at most one outcome and keeps its quality: a
\* playing frame removes a collectible exactly when it resolves a collision
\* with it or when its top edge is below the visible height after its update;
\* at most one is resolved, one that leaves the screen changes neither score
\* nor lives, no removed collectible comes back, and at the end of every frame
\* no active collectible is collected or wholly below the screen.
C14_OneOutcomePerCollectible ==
    /\ [](\A i \in 1..Len(apples) : ~apples[i].collected /\ apples[i].y <= 600)
    /\ [][\A i \in 1..Len(apples), j \in 1..Len(apples') :
            apples'[j].id = apples[i].id
                => /\ apples'[j].quality = apples[i].quality
                   /\ apples'[j].collected = apples[i].collected]_vars
    /\ [][(last'.op = "frame" /\ state = "playing")
            => /\ \A i \in 1..Len(apples) :
                    LET a == AppleFall(apples[i], elapsed' - elapsed)
                    IN  /\ i \in Removed <=> (a.y > 600 \/ last'.hit.id = a.id)
                        /\ ~(a.y > 600 /\ last'.hit.id = a.id)
               /\ last'.hit.kind # "none"
                    => /\ last'.hit.id \in Ids(apples) \cup {elapsed'}
                       /\ last'.hit.id \notin Ids(apples')
               /\ last'.hit.kind = "none"
                    => (score' = score /\ lifelines' = lifelines
                        /\ good_collected' = good_collected
                        /\ rotten_collected' = rotten_collected)
               /\ \A j \in 1..Len(apples') :
                    apples'[j].id \in Ids(apples) \cup {elapsed'}]_vars
    /\ [][(last'.op \notin {"frame", "reset"} \/ (state # "playing" /\ last'.op = "frame"))
            => apples' = apples]_vars

\* the first collectible of the round has left the screen uncollected
C14_Witness ==
    /\ last.op = "frame" /\ state = "playing"
    /\ score = 0 /\ lifelines = 3 /\ rotten_collected = 0
    /\ apples # <<>>
    /\ \A i \in 1..Len(apples) : apples[i].id > 1500

\* the session fields without the effects
WithoutEffects(g) == [g EXCEPT !.effects = <<>>]

\* the random draws a frame of the second exploration can make
FineFrameRandoms(dt) ==
    IF state = "playing" /\ SpawnDue(elapsed + dt, last_apple_spawn)
    THEN Randoms ELSE {NoRandom}

\* C15: effects are purely cosmetic: from every state of the loop, the frame
\* run with the effects in flight and the frame run with the effect group
\* emptied leave the same score, counters, lifelines, session state, player,
\* collectibles and logged collision (effects are never collision-tested);
\* and a frame that only updates or removes effects, resolving no collision,
\* leaves score, counters, lifelines and session state unchanged.
C15_EffectsAreCosmetic ==
    /\ [](phase = "running" =>
            \A dt \in FineDeltaTimes, keys \in FineKeyStates, cls \in ClassifierResults :
                \A rnd \in FineFrameRandoms(dt) :
                    WithoutEffects(FrameFields(Fields, dt, keys, rnd, cls))
                      = WithoutEffects(FrameFields(WithoutEffects(Fields), dt, keys, rnd, cls)))
    /\ [][(last'.op = "frame" /\ last'.hit.kind = "none")
            => UNCHANGED <<score, good_collected, rotten_collected, lifelines, state, basket>>]_vars
    /\ [][(last'.op = "frame" /\ last'.hit.kind = "damaged")
            => /\ Len(effects') <= Len(effects)
               /\ UNCHANGED <<score, good_collected, basket>>]_vars

\* a collision was resolved in a frame in which an older effect was in flight
C15_Witness ==
    /\ last.op = "frame" /\ last.hit.kind # "none"
    /\ \E i \in 1..Len(effects) : effects[i].elapsed = 500

\* the key states under which the player's update and the frame's collision
\* handling lead from boy to boy'
HeldKeys ==
    {keys \in PickKeyStates :
        LET b == BoyUpdate(boy, elapsed' - elapsed, keys)
        IN  boy' = IF last'.hit.kind # "none" THEN PlayPickAnimation(b) ELSE b}

MoveKeyHeld(keys) == LeftHeld(keys) \/ RightHeld(keys)

\* C16: the animation state follows picking > walking > idle.  In a playing
\* frame: a resolved collision sets the state to picking and the pick timer to
\* 0, also when a pick is in progress; with no collision, a pick in progress
\* lasts while picking_timer + dt <= 0.4 s, a held key then moving the player
\* without making it walk, and ends (to walking or idle) at the update where
\* picking_timer + dt > 0.4 s; outside picking the state is walking exactly
\* when a movement key is held and idle otherwise.  Within a round the state
\* leaves picking in no other step.
C16_AnimationPriority ==
    /\ [][(last'.op = "frame" /\ state = "playing")
            => LET dt == elapsed' - elapsed
                   picking == boy.animation_state = "picking"
                   lasts == picking /\ boy.picking_timer + dt <= 400
               IN  /\ HeldKeys # {}
                   /\ last'.hit.kind # "none"
                        => /\ boy'.animation_state = "picking"
                           /\ boy'.picking_timer = 0
                   /\ (last'.hit.kind = "none" /\ lasts)
                        => /\ boy'.animation_state = "picking"
                           /\ boy'.picking_timer = boy.picking_timer + dt
                           /\ \A keys \in HeldKeys :
                                /\ LeftHeld(keys)
                                     => boy'.x = (IF boy.x - 60 < 50 THEN 50 ELSE boy.x - 60)
                                /\ (~LeftHeld(keys) /\ RightHeld(keys))
                                     => boy'.x = (IF boy.x + 60 > 910 THEN 910 ELSE boy.x + 60)
                                /\ ~MoveKeyHeld(keys) => boy'.x = boy.x
                   /\ (last'.hit.kind = "none" /\ ~lasts)
                        => /\ boy'.animation_state \in {"walking", "idle"}
                           /\ \A keys \in HeldKeys :
                                boy'.animation_state = "walking" <=> MoveKeyHeld(keys)
                           /\ picking => boy'.picking_timer = 0]_vars
    /\ [][(boy.animation_state = "picking" /\ boy'.animation_state # "picking")
            => \/ last'.op = "reset"
               \/ /\ last'.op = "frame" /\ state = "playing"
                  /\ boy.picking_timer + (elapsed' - elapsed) > 400]_vars
    /\ [](Constructed => boy.animation_state \in {"idle", "walking", "picking"})

\* a second collision has restarted the pick 0.2 s into the pick of a catch
\* (the effect of that catch has been updated once)
C16_Witness ==
    /\ last.op = "frame" /\ last.hit.kind # "none"
    /\ boy.animation_state = "picking" /\ boy.picking_timer = 0
    /\ score + rotten_collected = 2
    /\ \E i \in 1..Len(effects) : effects[i].elapsed = 200

\* C17: in every state of the session score = good_collected = the basket's
\* apple count and lifelines + rotten_collected = 3; so rotten_collected never
\* exceeds 3, no collision is resolved while lifelines is 0, and a damaged
\* collision lowers lifelines by exactly one (the floor at 0 never decides).
C17_CounterInvariant ==
    /\ [](Constructed =>
            /\ score = good_collected
            /\ good_collected = basket.apple_count
            /\ lifelines + rotten_collected = 3
            /\ rotten_collected \in 0..3)
    /\ [][last'.hit.kind # "none" => lifelines > 0]_vars
    /\ [][last'.hit.kind = "damaged"
            => (lifelines - 1 >= 0 /\ lifelines' = lifelines - 1)]_vars

\* the third damaged collectible has just ended a round in which a good one
\* was caught
C17_Witness ==
    /\ last.op = "frame" /\ last.hit.kind = "damaged"
    /\ state = "ended" /\ rotten_collected = 3 /\ lifelines = 0
    /\ score = 1 /\ basket.apple_count = 1

\* C18: while the session is ended, a frame in which no restart key is
\* processed changes nothing of the gameplay: elapsed, last_apple_spawn, the
\* counters, the player, every collectible and every effect (position and
\* elapsed time) stay as they are, alive and unmoved, until a reset removes
\* them; only the loop's own flag may change.
C18_FrozenWhileEnded ==
    /\ [][(state = "ended" /\ last'.op # "reset") => UNCHANGED gameplay]_vars
    /\ [][(state = "ended" /\ last'.op = "frame")
            => /\ elapsed' = elapsed /\ last_apple_spawn' = last_apple_spawn
               /\ score' = score /\ lifelines' = lifelines
               /\ boy'.x = boy.x /\ boy'.animation_state = boy.animation_state
               /\ Len(apples') = Len(apples) /\ Len(effects') = Len(effects)
               /\ \A i \in 1..Len(apples) : apples'[i].y = apples[i].y
               /\ \A i \in 1..Len(effects) :
                    /\ effects'[i].elapsed = effects[i].elapsed
                    /\ effects'[i].center = effects[i].center
               /\ last'.hit = NoHit]_vars
    /\ [][(state = "ended" /\ (apples' # apples \/ effects' # effects))
            => (last'.op = "reset" /\ apples' = <<>> /\ effects' = <<>>)]_vars

\* a frame has been executed while ended, with an effect of the last catch
\* still in flight, half a second old
C18_Witness ==
    /\ state = "ended" /\ last.op = "frame" /\ last.hit.kind = "none"
    /\ \E i \in 1..Len(effects) :
         /\ effects[i].elapsed = 500
         /\ effects[i].center # effects[i].start

=============================================================================
